---- MODULE Spec2Model ----
(***************************************************************************)
(* Model of the auto-retry engine (src/src/auto-retry/retry-engine.ts) and *)
(* of the interceptor that drives it (src/unnamed/part_000).               *)
(*                                                                         *)
(* JavaScript runs every handler to completion: an action of this module   *)
(* is one such handler, from the event that starts it (a call, a promise   *)
(* settling, a timer firing) to the next await of the run it belongs to.   *)
(* The string operations of the code (toLowerCase, includes) work on the   *)
(* characters of a string, which Chars gives.                              *)
(***************************************************************************)
EXTENDS Integers, Sequences, FiniteSets, TLC

(***************************************************************************)
(* Bounds of the model.                                                    *)
(***************************************************************************)
\* settings.maxRetries and settings.rateLimitMaxRetries range over 1..MaxAttempts
MaxAttempts == 2
\* settings.fallbackModels has at most MaxFallbacks descriptors
MaxFallbacks == 2
\* settings.streamingTimeoutMs, in polling intervals of the race (1000 ms each)
StreamingTimeoutTicks == 1
\* number of run slots (calls of executeWithRetry) the model holds
NumRuns == 2
\* the largest attempt number a delay is computed for
MaxDelayAttempt == 4

Runs == 1..NumRuns

(***************************************************************************)
(* Strings as character sequences.                                         *)
(***************************************************************************)
\* String.prototype.toLowerCase, one character
LowerChar(c) ==
  CASE c = "A" -> "a" [] c = "B" -> "b" [] c = "C" -> "c" [] c = "D" -> "d"
    [] c = "E" -> "e" [] c = "F" -> "f" [] c = "G" -> "g" [] c = "H" -> "h"
    [] c = "I" -> "i" [] c = "J" -> "j" [] c = "K" -> "k" [] c = "L" -> "l"
    [] c = "M" -> "m" [] c = "N" -> "n" [] c = "O" -> "o" [] c = "P" -> "p"
    [] c = "Q" -> "q" [] c = "R" -> "r" [] c = "S" -> "s" [] c = "T" -> "t"
    [] c = "U" -> "u" [] c = "V" -> "v" [] c = "W" -> "w" [] c = "X" -> "x"
    [] c = "Y" -> "y" [] c = "Z" -> "z" [] OTHER -> c

\* String.prototype.toLowerCase
toLowerCase(s) == [i \in 1..Len(s) |-> LowerChar(s[i])]

\* String.prototype.includes: needle occurs in hay as a contiguous substring
includes(hay, needle) ==
  \E i \in 0..(Len(hay) - Len(needle)) :
    \A j \in 1..Len(needle) : hay[i + j] = needle[j]

\* the characters of the strings the model uses
Chars(str) ==
  CASE str = "" -> <<>>
    [] str = "rate limit" -> <<"r","a","t","e"," ","l","i","m","i","t">>
    [] str = "too many requests" -> <<"t","o","o"," ","m","a","n","y"," ","r","e","q","u","e","s","t","s">>
    [] str = "quota exceeded" -> <<"q","u","o","t","a"," ","e","x","c","e","e","d","e","d">>
    [] str = "network" -> <<"n","e","t","w","o","r","k">>
    [] str = "fetch" -> <<"f","e","t","c","h">>
    [] str = "timeout" -> <<"t","i","m","e","o","u","t">>
    [] str = "connection refused" -> <<"c","o","n","n","e","c","t","i","o","n"," ","r","e","f","u","s","e","d">>
    [] str = "connection reset" -> <<"c","o","n","n","e","c","t","i","o","n"," ","r","e","s","e","t">>
    [] str = "econnrefused" -> <<"e","c","o","n","n","r","e","f","u","s","e","d">>
    [] str = "econnreset" -> <<"e","c","o","n","n","r","e","s","e","t">>
    [] str = "Aborted by user" -> <<"A","b","o","r","t","e","d"," ","b","y"," ","u","s","e","r">>
    [] str = "Content validation failed" ->
         <<"C","o","n","t","e","n","t"," ","v","a","l","i","d","a","t","i","o","n"," ","f","a","i","l","e","d">>
    [] str = "Streaming timeout" -> <<"S","t","r","e","a","m","i","n","g"," ","t","i","m","e","o","u","t">>
    [] str = "ok" -> <<"o","k">>
    [] str = "ok!" -> <<"o","k","!">>
    [] str = "no" -> <<"n","o">>
    [] str = "Rate Limit" -> <<"R","a","t","e"," ","L","i","m","i","t">>
    [] str = "TOO MANY REQUESTS" -> <<"T","O","O"," ","M","A","N","Y"," ","R","E","Q","U","E","S","T","S">>
    [] str = "Quota Exceeded" -> <<"Q","u","o","t","a"," ","E","x","c","e","e","d","e","d">>
    [] str = "Network Error" -> <<"N","e","t","w","o","r","k"," ","E","r","r","o","r">>
    [] str = "Failed to fetch" -> <<"F","a","i","l","e","d"," ","t","o"," ","f","e","t","c","h">>
    [] str = "Request Timeout" -> <<"R","e","q","u","e","s","t"," ","T","i","m","e","o","u","t">>
    [] str = "Connection Refused" -> <<"C","o","n","n","e","c","t","i","o","n"," ","R","e","f","u","s","e","d">>
    [] str = "connection reset" -> <<"c","o","n","n","e","c","t","i","o","n"," ","r","e","s","e","t">>
    [] str = "ECONNREFUSED" -> <<"E","C","O","N","N","R","E","F","U","S","E","D">>
    [] str = "ECONNRESET" -> <<"E","C","O","N","N","R","E","S","E","T">>
    [] str = "Bad Request" -> <<"B","a","d"," ","R","e","q","u","e","s","t">>

\* msg.includes(keyword) on the lower-cased message, as the classifiers use it
msgIncludes(message, keyword) == includes(toLowerCase(Chars(message)), Chars(keyword))

(***************************************************************************)
(* Failure values.  isError is `instanceof Error`; status and statusCode   *)
(* are the properties of those names, NoStatus when the value has none.    *)
(***************************************************************************)
\* a property the value does not have (undefined)
NoStatus == -1

MkError(msg) == [isError |-> TRUE, message |-> msg, status |-> NoStatus, statusCode |-> NoStatus]
HttpError(code) == [isError |-> TRUE, message |-> "", status |-> code, statusCode |-> NoStatus]

\* new Error('Aborted by user')
AbortedError == MkError("Aborted by user")
\* new Error('Content validation failed')
ContentValidationError == MkError("Content validation failed")
\* new Error('Streaming timeout')
StreamingTimeoutError == MkError("Streaming timeout")

\* status ?? statusCode
StatusOf(error) == IF error.status # NoStatus THEN error.status ELSE error.statusCode

isRateLimitError(error) ==
  \/ /\ error.isError
     /\ \/ msgIncludes(error.message, "rate limit")
        \/ msgIncludes(error.message, "too many requests")
        \/ msgIncludes(error.message, "quota exceeded")
  \/ StatusOf(error) = 429

\* isRetryableError taking every status from 400 on as retryable (tests C9)
isRetryableError_clientErrors(error) ==
  \/ isRateLimitError(error)
  \/ LET status == StatusOf(error) IN
       /\ status # NoStatus
       /\ status >= 400
       /\ status < 600

isRetryableError(error) ==
  \/ isRateLimitError(error)
  \/ /\ error.isError
     /\ \/ msgIncludes(error.message, "network")
        \/ msgIncludes(error.message, "fetch")
        \/ msgIncludes(error.message, "timeout")
        \/ msgIncludes(error.message, "connection refused")
        \/ msgIncludes(error.message, "connection reset")
        \/ msgIncludes(error.message, "econnrefused")
        \/ msgIncludes(error.message, "econnreset")
  \/ LET status == StatusOf(error) IN
       /\ status # NoStatus
       /\ status >= 500
       /\ status < 600

\* the failure values the classifiers are called with: Error instances and
\* other objects, with a message and with or without status and statusCode
ProbeMessages ==
  { "", "Rate Limit", "TOO MANY REQUESTS", "Quota Exceeded", "Network Error",
    "Failed to fetch", "Request Timeout", "Connection Refused", "connection reset",
    "ECONNREFUSED", "ECONNRESET", "Bad Request" }
ProbeStatuses == { NoStatus, 400, 401, 403, 404, 429, 499, 500, 599, 600 }
FailureValues ==
  { [isError |-> b, message |-> msg, status |-> st, statusCode |-> sc] :
      b \in BOOLEAN, msg \in ProbeMessages, st \in ProbeStatuses, sc \in {NoStatus, 429, 503} }

\* no function of the engine is being called on its own.  For a call of
\* abortRetry or updateTokenTime the probe holds the id it was given, what it
\* returned (abortRetry) and the parity of the number of such calls so far
NoProbe ==
  [kind |-> "none", stage |-> "input", error |-> MkError(""), attempt |-> 0,
   isRateLimit |-> FALSE, rate |-> FALSE, retry |-> FALSE, delay |-> 0,
   id |-> "g1", returned |-> FALSE, seq |-> 0]

(***************************************************************************)
(* Settings and the inputs of a run.                                       *)
(***************************************************************************)
\* generation ids callers use
Ids == {"g1", "g2"}

\* what an absent optional value (undefined) and a present one look like
Undefined == <<>>
Some(v) == <<v>>

\* fallback descriptor at position k (1-based) of settings.fallbackModels: a
\* usable one, or one that lacks its endpoint (odd k) or its model (even k)
Descriptor(k, usable) ==
  [apiurl |-> IF ~usable /\ k % 2 = 1 THEN "" ELSE "https://fallback",
   key    |-> k,
   model  |-> IF ~usable /\ k % 2 = 0 THEN "" ELSE "fallback-model"]

\* the lists settings.fallbackModels is drawn from
FallbackLists ==
  UNION { { [k \in 1..n |-> Descriptor(k, usable[k])] : usable \in [1..n -> BOOLEAN] }
          : n \in 0..MaxFallbacks }

\* the required-content patterns and the generated texts
Contents == { "no", "ok!" }

\* failures the backend produces: rate limited, server error, client error
BackendErrors == { HttpError(429), HttpError(500), HttpError(400) }

\* Array.prototype.includes on settings.filterGenerationIds
arrayIncludes(array, x) == \E k \in 1..Len(array) : array[k] = x

SettingsSpace ==
  { [enabled                |-> en,
     maxRetries             |-> mr,
     retryDelayMs           |-> 1000,
     retryDelayMultiplier   |-> 2,
     rateLimitDelayMs       |-> 30000,
     rateLimitMaxRetries    |-> rl,
     streamingTimeoutMs     |-> StreamingTimeoutTicks * 1000,
     requiredContentEnabled |-> ce,
     requiredContentPattern |-> "ok",
     requiredContentIsRegex |-> FALSE,
     fallbackModelsEnabled  |-> fe,
     fallbackModels         |-> fl,
     filterEnabled          |-> fi,
     filterMode             |-> fm,
     filterGenerationIds    |-> fg,
     showRetryToast         |-> tr,
     showSuccessToast       |-> ts,
     showFailureToast       |-> tf]
    : en \in BOOLEAN, mr \in 1..MaxAttempts, rl \in 1..MaxAttempts, ce \in BOOLEAN,
      fe \in BOOLEAN, fl \in FallbackLists,
      fi \in BOOLEAN, fm \in {"whitelist", "blacklist"}, fg \in {<<"g1">>, <<"g2">>},
      tr \in BOOLEAN, ts \in BOOLEAN, tf \in BOOLEAN }

\* the settings a run is checked with: with the cascade switched off the list
\* is never read, and one full list of usable descriptors stands for all
\* The script enabled and the filter switched off (its list is then never read:
\* a blacklist that holds the id of the run stands for all) go with every
\* value of the other settings; the script disabled, and the filter switched
\* on in each mode with a list that holds the id of the run or does not, go
\* with the largest budgets and the full list of usable descriptors.  The
\* notifications are switched off; SpecToast runs with each choice of them.
RunSettings ==
  { s \in SettingsSpace :
      /\ ~s.showRetryToast /\ ~s.showSuccessToast /\ ~s.showFailureToast
      /\ s.fallbackModelsEnabled
         \/ s.fallbackModels = [k \in 1..MaxFallbacks |-> Descriptor(k, TRUE)]
      /\ \/ /\ s.enabled /\ ~s.filterEnabled
            /\ s.filterMode = "blacklist" /\ s.filterGenerationIds = <<"g1">>
         \/ /\ s.maxRetries = MaxAttempts /\ s.rateLimitMaxRetries = MaxAttempts
            /\ s.fallbackModels = [k \in 1..MaxFallbacks |-> Descriptor(k, TRUE)]
            /\ \/ s.enabled /\ s.filterEnabled
               \/ /\ ~s.enabled /\ ~s.filterEnabled
                  /\ s.filterMode = "blacklist" /\ s.filterGenerationIds = <<"g1">> }

VARIABLES
  settings,        \* the Settings object the runs are given
  activeContexts,  \* the registry: generation id -> the run whose context it holds, 0 = no entry
  ctx,             \* ctx[r]: the RetryContext object run r created
  loc,             \* loc[r]: the locals of run r's executeRetryLoop and where it is suspended
  race,            \* race[r]: the raceWithTimeouts closure of run r's current attempt
  outcome,         \* outcome[r]: what executeWithRetry returned, Undefined before
  config,          \* config[r]: generation_id and should_stream of the call that is run r (input)
  returned,        \* returned[r]: how the promise of the wrapper settled, Undefined before
  plan,            \* plan[r]: the behaviour of the primary operation of run r (input)
  obs,             \* obs[r]: record of what run r did (history, not program state)
  probe            \* a call of one of the engine's pure functions: arguments and returned value

vars == <<settings, activeContexts, ctx, loc, race, outcome, returned, config, plan, obs, probe>>

(***************************************************************************)
(* Pure helpers of the engine.                                             *)
(***************************************************************************)
RECURSIVE Pow(_, _)
\* Math.pow for a natural exponent
Pow(b, e) == IF e = 0 THEN 1 ELSE b * Pow(b, e - 1)

\* a validation that accepts every text (tests C13)
validateContent_acceptsAll(content) == TRUE

validateContent(content) ==
  IF ~settings.requiredContentEnabled \/ settings.requiredContentPattern = ""
  THEN TRUE
  ELSE includes(Chars(content), Chars(settings.requiredContentPattern))

\* the delay with the exponent `attempt` instead of `attempt - 1` (tests C25)
calculateDelay_exponentAttempt(attempt, isRateLimit) ==
  IF isRateLimit
  THEN settings.rateLimitDelayMs
  ELSE settings.retryDelayMs * Pow(settings.retryDelayMultiplier, attempt)

calculateDelay(attempt, isRateLimit) ==
  IF isRateLimit
  THEN settings.rateLimitDelayMs
  ELSE settings.retryDelayMs * Pow(settings.retryDelayMultiplier, attempt - 1)

\* the usability test looking at the endpoint alone (tests C8)
Usable_endpointOnly(fallbackModel) == fallbackModel.apiurl # ""

\* the test that lets a fallback descriptor be tried (the negation of the skip test)
Usable(fallbackModel) == fallbackModel.apiurl # "" /\ fallbackModel.model # ""

\* the filter taking every list for a blacklist (tests C11)
shouldRetryGeneration_blacklistOnly(generationId, s) ==
  IF ~s.filterEnabled THEN TRUE
  ELSE ~arrayIncludes(s.filterGenerationIds, generationId)

shouldRetryGeneration(generationId, s) ==
  IF ~s.filterEnabled THEN TRUE
  ELSE LET isInList == arrayIncludes(s.filterGenerationIds, generationId) IN
       IF s.filterMode = "whitelist" THEN isInList ELSE ~isInList

\* a wrapper that retries nothing (tests C12)
passesThrough_never(s) == FALSE

\* the test at the head of wrappedGenerate / wrappedGenerateRaw,
\* `!store.settings.enabled || !originalGenerate`: the wrappers are only
\* reachable once install() has stored the original functions
passesThrough(s) == ~s.enabled

\* the interval of the race's setInterval, in ms
PollIntervalMs == 1000

(***************************************************************************)
(* A run as a machine m = [ctx, loc, race, out, obs]: the operators below  *)
(* take the machine at one point of executeRetryLoop and give it back at   *)
(* the next await or at the return.                                        *)
(***************************************************************************)
IdleCtx ==
  [generationId |-> "g1", isStreaming |-> FALSE, aborted |-> FALSE,
   tokenAge |-> 0, hasReceivedContent |-> FALSE, startAge |-> 0]

IdleLoc ==
  [pc |-> "idle", loop |-> "primary", attempt |-> 0, lastError |-> Undefined,
   usedFallback |-> FALSE, currentFallbackModel |-> Undefined, fallbackIndex |-> -1,
   custom_api |-> Undefined, sleepMs |-> 0]

\* with the closure go the promises it was built on: `op` the operation of the
\* current attempt, `orphans` the number of operations of earlier attempts that
\* are still pending.  The model follows the latest of them: when an attempt is
\* abandoned with its operation pending, the one abandoned before has settled
IdleRace == [op |-> "none", resolved |-> FALSE, interval |-> FALSE, orphans |-> 0]

\* the history kept of a run: the backend invoked last (-1 the primary, else
\* the index of the descriptor), how often it was invoked and what its
\* attempts ended with; every backend invoked so far; the custom_api of the
\* last invocation; what the last attempt ended with; and whether abortRetry
\* hit the run while an attempt was outstanding; and of the current attempt,
\* how often resolve/reject of its race was called, whether stopGenerationById
\* was called, whether updateTokenTime reached the context, and how many
\* polling intervals have passed since it last did (or since the attempt
\* began); the toastr calls of the run's latest handler step; and whether
\* GENERATION_STOPPED was emitted while the run was retrying; and whether a
\* token of the current attempt's own operation reached the context
IdleObs ==
  [backend |-> -1, calls |-> 0, seen |-> {}, tried |-> {}, invokedWith |-> Undefined,
   lastSettle |-> Undefined, abortedInAttempt |-> FALSE,
   settles |-> 0, stopped |-> FALSE, tokens |-> FALSE, quiet |-> 0, toasts |-> {},
   userStopped |-> FALSE, ownToken |-> FALSE]

\* what the race saw settle: the operation's value or failure, or its own timeout
Fulfilled(content) == [ok |-> TRUE, content |-> content, error |-> MkError("")]
Rejected(error) == [ok |-> FALSE, content |-> "", error |-> error]

\* the end of the wrapper: `if (result.success) return result.result; throw result.error`
Unwrap(result) == [threw |-> ~result.success, value |-> result.result, error |-> result.error]

\* `if (shown) toastr.<kind>(...)`; m.tg holds the three notification toggles
\* of the settings the run was given
Toast(m, shown, kind) == IF shown THEN [m EXCEPT !.obs.toasts = @ \cup {kind}] ELSE m

\* return of executeRetryLoop; executeWithRetry passes it on to the wrapper
Return(m, result) ==
  [m EXCEPT !.loc.pc = "done", !.out = Some(result), !.ret = Some(Unwrap(result))]

\* the operation called without the retry loop, by the wrapper of a disabled
\* script (pc "direct") or by executeWithRetry for a filtered-out id (pc "bypass")
InvokeBare(m, pc) ==
  [m EXCEPT !.loc.pc = pc,
            !.race.op = "pending",
            !.obs.calls = 1,
            !.obs.tried = {-1}]

\* `return originalGenerate(config)` of a disabled script: the promise of the
\* wrapper settles as the operation does
Direct(m, settled) ==
  [m EXCEPT !.loc.pc = "done",
            !.race.op = "none",
            !.obs.lastSettle = Some(settled),
            !.ret = Some([threw |-> ~settled.ok,
                          value |-> IF settled.ok THEN Some(settled.content) ELSE Undefined,
                          error |-> IF settled.ok THEN Undefined ELSE Some(settled.error)])]

\* the try/catch around `await fn()` for a filtered-out id
PassThrough(m, settled) ==
  Return([m EXCEPT !.race.op = "none", !.obs.lastSettle = Some(settled)],
         [success |-> settled.ok,
          result |-> IF settled.ok THEN Some(settled.content) ELSE Undefined,
          error |-> IF settled.ok THEN Undefined ELSE Some(settled.error),
          attempts |-> 1, usedFallback |-> FALSE, fallbackModel |-> Undefined])

\* the two `if (ctx.aborted) return` of a loop: the primary's has no fallbackModel
AbortedResult(m) ==
  [success |-> FALSE, result |-> Undefined, error |-> Some(AbortedError),
   attempts |-> m.loc.attempt, usedFallback |-> m.loc.usedFallback,
   fallbackModel |-> IF m.loc.loop = "primary" THEN Undefined
                     ELSE m.loc.currentFallbackModel]

\* the success result counting the retries instead of the attempts (tests C2)
SuccessResult_countsRetries(m, content) ==
  [success |-> TRUE, result |-> Some(content), error |-> Undefined,
   attempts |-> m.loc.attempt - 1, usedFallback |-> m.loc.usedFallback,
   fallbackModel |-> m.loc.currentFallbackModel]

SuccessResult(m, content) ==
  [success |-> TRUE, result |-> Some(content), error |-> Undefined,
   attempts |-> m.loc.attempt, usedFallback |-> m.loc.usedFallback,
   fallbackModel |-> m.loc.currentFallbackModel]

\* the return after every loop has ended
FailureResult(m) ==
  [success |-> FALSE, result |-> Undefined, error |-> m.loc.lastError,
   attempts |-> m.loc.attempt, usedFallback |-> m.loc.usedFallback,
   fallbackModel |-> m.loc.currentFallbackModel]

\* a while loop without the abort test at its top (tests C4)
AbortedAtTop_never(m) == FALSE

\* the abort test at the top of each while loop
AbortedAtTop(m) == m.ctx.aborted

\* the abort test of each catch block
AbortedInCatch(m) == m.ctx.aborted

\* the head of the loop's body without `ctx.hasReceivedContent = false` (tests C32)
Invoke_keepsContentFlag(m) ==
  Toast(
  [m EXCEPT !.loc.attempt = @ + 1,
            !.loc.pc = "racing",
            !.ctx.tokenAge = 0,
            !.ctx.startAge = 0,
            !.race = [op |-> "pending", resolved |-> FALSE, interval |-> m.ctx.isStreaming,
                      orphans |-> IF m.race.op = "pending" THEN 1 ELSE m.race.orphans],
            !.obs.settles = 0,
            !.obs.tokens = FALSE,
            !.obs.ownToken = FALSE,
            !.obs.quiet = 0,
            !.obs.backend = m.loc.fallbackIndex,
            !.obs.calls = IF m.obs.backend = m.loc.fallbackIndex THEN @ + 1 ELSE 1,
            !.obs.seen = IF m.obs.backend = m.loc.fallbackIndex THEN @ ELSE {},
            !.obs.tried = @ \cup {m.loc.fallbackIndex},
            !.obs.invokedWith = m.loc.custom_api],
  m.tg.showRetryToast /\ m.loc.attempt + 1 > 1, "attempt")

\* attempt++, the per-attempt resets, currentFn() and the set-up of its race.
\* The context holds times as ages: tokenAge is Date.now() - lastTokenTime and
\* startAge is Date.now() - startTime, both 0 when set to Date.now()
Invoke(m) ==
  Toast(
  [m EXCEPT !.loc.attempt = @ + 1,
            !.loc.pc = "racing",
            !.ctx.tokenAge = 0,
            !.ctx.hasReceivedContent = FALSE,
            !.ctx.startAge = 0,
            !.race = [op |-> "pending", resolved |-> FALSE, interval |-> m.ctx.isStreaming,
                      orphans |-> IF m.race.op = "pending" THEN 1 ELSE m.race.orphans],
            !.obs.settles = 0,
            !.obs.tokens = FALSE,
            !.obs.ownToken = FALSE,
            !.obs.quiet = 0,
            !.obs.backend = m.loc.fallbackIndex,
            !.obs.calls = IF m.obs.backend = m.loc.fallbackIndex THEN @ + 1 ELSE 1,
            !.obs.seen = IF m.obs.backend = m.loc.fallbackIndex THEN @ ELSE {},
            !.obs.tried = @ \cup {m.loc.fallbackIndex},
            !.obs.invokedWith = m.loc.custom_api],
  m.tg.showRetryToast /\ m.loc.attempt + 1 > 1, "attempt")

\* await handleRetryDelay(attempt, settings, isRateLimit)
handleRetryDelay(m, isRateLimit) ==
  [m EXCEPT !.loc.pc = "sleeping",
            !.loc.sleepMs = calculateDelay(m.loc.attempt, isRateLimit)]

\* the set-up reporting the first descriptor of the list, usable or not (tests C6)
EnterFallback_firstDescriptor(m, i) ==
  LET fallbackModel == settings.fallbackModels[i + 1] IN
  [m EXCEPT !.loc.fallbackIndex = i,
            !.loc.usedFallback = TRUE,
            !.loc.currentFallbackModel = Some(settings.fallbackModels[1]),
            !.loc.custom_api = Some(fallbackModel),
            !.loc.loop = "fallback",
            !.loc.attempt = 0]

\* the set-up without `attempt = 0` (tests C7)
EnterFallback_keepsAttempt(m, i) ==
  LET fallbackModel == settings.fallbackModels[i + 1] IN
  [m EXCEPT !.loc.fallbackIndex = i,
            !.loc.usedFallback = TRUE,
            !.loc.currentFallbackModel = Some(fallbackModel),
            !.loc.custom_api = Some(fallbackModel),
            !.loc.loop = "fallback"]

\* the for loop's set-up of fallback descriptor i (0-based, as in the code)
EnterFallback(m, i) ==
  LET fallbackModel == settings.fallbackModels[i + 1] IN
  Toast([m EXCEPT !.loc.fallbackIndex = i,
                  !.loc.usedFallback = TRUE,
                  !.loc.currentFallbackModel = Some(fallbackModel),
                  !.loc.custom_api = Some(fallbackModel),
                  !.loc.loop = "fallback",
                  !.loc.attempt = 0],
        m.tg.showRetryToast, "fallback")

RECURSIVE WhileTop(_), AfterLoop(_), FallbackFrom(_, _)
\* the loops with the condition `attempt <= maxRetries` (tests C35)
WhileTop_oneMore(m) ==
  IF m.loc.attempt <= settings.maxRetries
  THEN IF AbortedAtTop(m) THEN Return(m, AbortedResult(m)) ELSE Invoke(m)
  ELSE AfterLoop(m)

\* the condition of a while loop and the head of its body
WhileTop(m) ==
  IF m.loc.attempt < settings.maxRetries
  THEN IF AbortedAtTop(m) THEN Return(m, AbortedResult(m)) ELSE Invoke(m)
  ELSE AfterLoop(m)

\* what follows a while loop: after the primary's, the test that opens the
\* cascade; after a fallback's, the next iteration of the for loop
AfterLoop(m) ==
  IF m.loc.loop = "primary"
  THEN IF settings.fallbackModelsEnabled /\ Len(settings.fallbackModels) > 0
       THEN FallbackFrom(m, 0)
       ELSE Return(Toast(m, m.tg.showFailureToast, "failure"), FailureResult(m))
  ELSE FallbackFrom(m, m.loc.fallbackIndex + 1)

\* the for loop over settings.fallbackModels from index i on
FallbackFrom(m, i) ==
  IF i >= Len(settings.fallbackModels)
  THEN Return(Toast(m, m.tg.showFailureToast, "failure"), FailureResult(m))
  ELSE IF ~Usable(settings.fallbackModels[i + 1])
       THEN FallbackFrom(m, i + 1)
       ELSE WhileTop(EnterFallback(m, i))

\* the primary measuring every failure against rateLimitMaxRetries (tests C1)
currentMaxRetries_oneBudget(m, isRateLimit) ==
  IF m.loc.loop = "primary" THEN settings.rateLimitMaxRetries ELSE settings.maxRetries

\* the retry budget a failure is measured against
currentMaxRetries(m, isRateLimit) ==
  IF m.loc.loop = "primary"
  THEN IF isRateLimit THEN settings.rateLimitMaxRetries ELSE settings.maxRetries
  ELSE settings.maxRetries

\* the catch block going back to the loop's head without the delay (tests C19)
Catch_retriesAtOnce(m, error) ==
  LET m1 == [m EXCEPT !.loc.lastError = Some(error)] IN
  IF AbortedInCatch(m1) THEN Return(m1, AbortedResult(m1))
  ELSE IF ~isRetryableError(error) THEN AfterLoop(m1)
  ELSE IF m1.loc.attempt >= currentMaxRetries(m1, isRateLimitError(error)) THEN AfterLoop(m1)
  ELSE WhileTop(m1)

\* the catch block of a loop; the primary's announces the rate-limit wait
Catch(m, error) ==
  LET m1 == [m EXCEPT !.loc.lastError = Some(error)] IN
  IF AbortedInCatch(m1) THEN Return(m1, AbortedResult(m1))
  ELSE IF ~isRetryableError(error) THEN AfterLoop(m1)
  ELSE IF m1.loc.attempt >= currentMaxRetries(m1, isRateLimitError(error)) THEN AfterLoop(m1)
  ELSE handleRetryDelay(
         Toast(m1, m1.loc.loop = "primary" /\ isRateLimitError(error) /\ m1.tg.showRetryToast,
               "rateLimit"),
         isRateLimitError(error))

\* the validation branch assigning lastError inside the toast's `if` (tests C22)
Resolved_errorUnderToggle(m, content) ==
  IF ~validateContent(content)
  THEN handleRetryDelay(
         IF m.tg.showRetryToast
         THEN [Toast(m, TRUE, "validation") EXCEPT !.loc.lastError = Some(ContentValidationError)]
         ELSE m,
         FALSE)
  ELSE Return(Toast(m, m.tg.showSuccessToast /\ (m.loc.loop = "primary" => m.loc.attempt > 1),
                    "success"),
              SuccessResult(m, content))

\* what follows `await raceWithTimeouts` when the race resolves
Resolved(m, content) ==
  IF ~validateContent(content)
  THEN handleRetryDelay(
         [Toast(m, m.tg.showRetryToast, "validation")
            EXCEPT !.loc.lastError = Some(ContentValidationError)],
         FALSE)
  ELSE Return(Toast(m, m.tg.showSuccessToast /\ (m.loc.loop = "primary" => m.loc.attempt > 1),
                    "success"),
              SuccessResult(m, content))

\* cleanup() of raceWithTimeouts
cleanup(m) == [m EXCEPT !.race.resolved = TRUE, !.race.interval = FALSE]

\* the handlers without their `if (!resolved)` test (tests C18)
OnSettled_lateCounts(m, settled) ==
  LET m2 == [cleanup(m) EXCEPT !.race.op = "none",
                               !.obs.seen = @ \cup {settled},
                               !.obs.lastSettle = Some(settled),
                               !.obs.stopped = FALSE,
                               !.obs.settles = @ + 1] IN
  IF settled.ok THEN Resolved(m2, settled.content) ELSE Catch(m2, settled.error)

\* the race's then/catch handlers on the operation's promise
OnSettled(m, settled) ==
  LET m1 == [m EXCEPT !.race.op = "none"] IN
  IF m1.race.resolved
  THEN m1
  ELSE LET m2 == [cleanup(m1) EXCEPT !.obs.seen = @ \cup {settled},
                                     !.obs.lastSettle = Some(settled),
                                     !.obs.stopped = FALSE,
                                     !.obs.settles = @ + 1] IN
       IF settled.ok THEN Resolved(m2, settled.content) ELSE Catch(m2, settled.error)

\* the limit src/specs/auto-retry.md sets for an attempt without any token
\* (thinkingTimeLimitMs), here one polling interval; settings.ts and the engine
\* have no such setting
thinkingTimeLimitMs == PollIntervalMs

\* the elapsed time the model tells apart: up to one polling interval past the
\* stall threshold
MaxAgeMs == settings.streamingTimeoutMs + PollIntervalMs

\* Date.now() - ctx.lastTokenTime one polling interval later
Aged(c) == IF c.tokenAge < MaxAgeMs THEN c.tokenAge + PollIntervalMs ELSE c.tokenAge

\* Date.now() - ctx.startTime one polling interval later; of the time since the
\* attempt began, which no code reads, the model tells apart none and some
AgedStart(c) == IF c.startAge < PollIntervalMs THEN c.startAge + PollIntervalMs ELSE c.startAge

\* the callback that only watches the clock and never fires (tests C16)
OnInterval_neverFires(m) ==
  IF m.race.resolved \/ m.ctx.aborted
  THEN cleanup(m)
  ELSE [m EXCEPT !.ctx.tokenAge = Aged(m.ctx), !.ctx.startAge = AgedStart(m.ctx)]

\* the callback firing for a stall without asking for received content (tests C15)
OnInterval_anyStall(m) ==
  IF m.race.resolved \/ m.ctx.aborted
  THEN cleanup(m)
  ELSE LET m1 == [m EXCEPT !.ctx.tokenAge = Aged(m.ctx), !.ctx.startAge = AgedStart(m.ctx)] IN
       IF m1.ctx.tokenAge > settings.streamingTimeoutMs
       THEN Catch([cleanup(m1) EXCEPT !.obs.stopped = TRUE,
                                      !.obs.seen = @ \cup {Rejected(StreamingTimeoutError)},
                                      !.obs.lastSettle = Some(Rejected(StreamingTimeoutError)),
                                      !.obs.settles = @ + 1],
                  StreamingTimeoutError)
       ELSE m1

\* the callback of the race's setInterval
OnInterval(m) ==
  IF m.race.resolved \/ m.ctx.aborted
  THEN cleanup(m)
  ELSE LET m1 == [m EXCEPT !.ctx.tokenAge = Aged(m.ctx), !.ctx.startAge = AgedStart(m.ctx)] IN
       IF m1.ctx.hasReceivedContent /\ m1.ctx.tokenAge > settings.streamingTimeoutMs
       THEN Catch([Toast(cleanup(m1), m1.tg.showRetryToast, "timeout")
                                  EXCEPT !.obs.stopped = TRUE,
                                      !.obs.seen = @ \cup {Rejected(StreamingTimeoutError)},
                                      !.obs.lastSettle = Some(Rejected(StreamingTimeoutError)),
                                      !.obs.settles = @ + 1],
                  StreamingTimeoutError)
       ELSE m1

(***************************************************************************)
(* State and actions.                                                      *)
(***************************************************************************)
\* run r is inside executeRetryLoop
IsActive(r) == loc[r].pc \in {"racing", "sleeping"}

M(r) ==
  [ctx |-> ctx[r], loc |-> loc[r], race |-> race[r], out |-> outcome[r],
   ret |-> returned[r], obs |-> [obs[r] EXCEPT !.toasts = {}],
   tg |-> [showRetryToast   |-> settings.showRetryToast,
           showSuccessToast |-> settings.showSuccessToast,
           showFailureToast |-> settings.showFailureToast]]

\* the registry entry deleted on the success path alone (tests C5)
Finally_onSuccessOnly(m) ==
  IF m.loc.pc = "done" /\ m.out[1].success
  THEN [activeContexts EXCEPT ![m.ctx.generationId] = 0]
  ELSE activeContexts

\* the finally block of executeWithRetry, run when the loop has returned
Finally(m) ==
  IF m.loc.pc = "done"
  THEN [activeContexts EXCEPT ![m.ctx.generationId] = 0]
  ELSE activeContexts

\* run r continues as machine m
Becomes(r, m) ==
  /\ ctx' = [ctx EXCEPT ![r] = m.ctx]
  /\ loc' = [loc EXCEPT ![r] = m.loc]
  /\ race' = [race EXCEPT ![r] = m.race]
  /\ outcome' = [outcome EXCEPT ![r] = m.out]
  /\ returned' = [returned EXCEPT ![r] = m.ret]
  /\ obs' = [obs EXCEPT ![r] = m.obs]

\* texts that carry the required pattern
GoodContents == { "ok!" }

\* the texts a backend may produce: with validation switched off the text is
\* never looked at, and one text without the pattern stands for all
MayProduce ==
  IF settings.requiredContentEnabled THEN Contents ELSE Contents \ GoodContents

\* the behaviours of a primary operation: free (n = 0: each invocation settles
\* with any text or failure), or failing with `failure` on each of its first
\* n - 1 invocations and yielding a text with the required pattern on the
\* n-th, in a call that does not stream
Plans(maxRetries) ==
  { [n |-> 0, failure |-> HttpError(500)], [n |-> 1, failure |-> HttpError(500)] }
  \cup { [n |-> k, failure |-> e] : k \in 2..maxRetries, e \in {HttpError(429), HttpError(500)} }

\* what the operation invoked last by run r may settle with
MaySettle(r) ==
  IF plan[r].n = 0 \/ loc[r].loop # "primary"
  THEN { Fulfilled(c) : c \in MayProduce } \cup { Rejected(e) : e \in BackendErrors }
  ELSE IF obs[r].calls < plan[r].n
       THEN { Rejected(plan[r].failure) }
       ELSE { Fulfilled(c) : c \in GoodContents }

\* whether the operation invoked last by run r may stream a token
MayStream(r) == plan[r].n = 0 \/ loc[r].loop # "primary"

\* The state after the script is loaded and before a generation is requested.
\* A call that streams is made with a free operation, with equal budgets for
\* ordinary and rate-limited failures and with a list of usable descriptors:
\* the race, the one place where streaming matters, reads neither the budgets
\* nor the list.
Init ==
  /\ settings \in RunSettings
  /\ activeContexts = [id \in Ids |-> 0]
  /\ ctx = [r \in Runs |-> IdleCtx]
  /\ loc = [r \in Runs |-> IF r = 1 THEN IdleLoc ELSE [IdleLoc EXCEPT !.pc = "absent"]]
  /\ race = [r \in Runs |-> IdleRace]
  /\ outcome = [r \in Runs |-> Undefined]
  /\ returned = [r \in Runs |-> Undefined]
  /\ \E p \in Plans(settings.maxRetries) :
       /\ plan = [r \in Runs |-> p]
       /\ \E s \in (IF /\ p.n = 0
                       /\ settings.rateLimitMaxRetries = settings.maxRetries
                       /\ \A k \in 1..Len(settings.fallbackModels) :
                            Usable(settings.fallbackModels[k])
                    THEN BOOLEAN ELSE {FALSE}) :
            config = [r \in Runs |-> [generation_id |-> "g1", should_stream |-> s]]
  /\ obs = [r \in Runs |-> IdleObs]
  /\ probe = NoProbe

\* the RetryContext executeWithRetry builds for the call of run r
NewContext(r) ==
  [generationId |-> config[r].generation_id,
   isStreaming |-> config[r].should_stream,
   aborted |-> FALSE,
   tokenAge |-> 0,
   hasReceivedContent |-> FALSE,
   startAge |-> 0]

\* a call of the wrapper up to its first await.  A disabled script calls the
\* original function itself; executeWithRetry calls fn() itself for a filtered-out
\* id, and else creates and registers the context and runs executeRetryLoop to its
\* first currentFn()
Start(r) ==
  /\ loc[r].pc = "idle"
  /\ LET id == config[r].generation_id
         m0 == [M(r) EXCEPT !.ctx = NewContext(r)]
     IN IF passesThrough(settings)
        THEN Becomes(r, InvokeBare(M(r), "direct")) /\ UNCHANGED activeContexts
        ELSE IF ~shouldRetryGeneration(id, settings)
        THEN Becomes(r, InvokeBare(M(r), "bypass")) /\ UNCHANGED activeContexts
        ELSE /\ Becomes(r, WhileTop(m0))
             /\ activeContexts' = [activeContexts EXCEPT ![id] = r]
  /\ UNCHANGED <<settings, config, plan, probe>>

\* the promise of an operation settles and the handler of whoever awaits it runs
OpSettles(r) ==
  /\ race[r].op = "pending"
  /\ \E settled \in MaySettle(r) :
       IF loc[r].pc = "direct"
       THEN Becomes(r, Direct(M(r), settled)) /\ UNCHANGED activeContexts
       ELSE IF loc[r].pc = "bypass"
       THEN Becomes(r, PassThrough(M(r), settled)) /\ UNCHANGED activeContexts
       ELSE LET m1 == OnSettled(M(r), settled) IN
            /\ Becomes(r, m1)
            /\ activeContexts' = IF race[r].resolved THEN activeContexts ELSE Finally(m1)
  /\ UNCHANGED <<settings, config, plan, probe>>

\* one polling interval passes for the race of a streaming attempt
Tick(r) ==
  /\ race[r].interval
  /\ LET quiet == IF obs[r].quiet <= StreamingTimeoutTicks THEN obs[r].quiet + 1
                  ELSE obs[r].quiet
         m1 == OnInterval([M(r) EXCEPT !.obs.quiet = quiet]) IN
       /\ Becomes(r, m1)
       /\ activeContexts' = Finally(m1)
  /\ UNCHANGED <<settings, config, plan, probe>>

\* an operation of an earlier attempt settles: the race it was given to has
\* `resolved` set, and its handlers do nothing
OrphanSettles(r) ==
  /\ race[r].orphans > 0
  /\ race' = [race EXCEPT ![r].orphans = @ - 1]
  /\ UNCHANGED <<settings, activeContexts, ctx, loc, outcome, returned, config, plan, obs, probe>>

\* the delay of handleRetryDelay has elapsed: the loop goes on
SleepDone(r) ==
  /\ loc[r].pc = "sleeping"
  /\ LET m1 == WhileTop([M(r) EXCEPT !.loc.sleepMs = 0]) IN
       /\ Becomes(r, m1)
       /\ activeContexts' = Finally(m1)
  /\ UNCHANGED <<settings, config, plan, probe>>

\* abortRetry marking every registered context, whatever its id (tests C21)
AbortRetry_everyRun(id) ==
  /\ ctx' = [r \in Runs |->
              IF \E i \in Ids : activeContexts[i] = r
              THEN [ctx[r] EXCEPT !.aborted = TRUE] ELSE ctx[r]]
  /\ obs' = [r \in Runs |->
              IF \E i \in Ids : activeContexts[i] = r
              THEN [obs[r] EXCEPT !.abortedInAttempt =
                      @ \/ (loc[r].pc = "racing" /\ ~race[r].resolved /\ ~ctx[r].aborted)]
              ELSE obs[r]]
  /\ UNCHANGED <<settings, activeContexts, loc, race, outcome, returned, config, plan, probe>>

\* abortRetry looking the context up among the runs made with the id instead
\* of in the registry (tests C31)
abortRetry_byRun(id) ==
  /\ ctx' = [r \in Runs |->
              IF loc[r].pc \notin {"absent", "idle"} /\ config[r].generation_id = id
              THEN [ctx[r] EXCEPT !.aborted = TRUE] ELSE ctx[r]]
  /\ UNCHANGED <<settings, activeContexts, loc, race, outcome, returned, config, plan, obs>>

\* the body of abortRetry(id): what it does to the contexts
abortRetry(id) ==
  /\ LET r == activeContexts[id] IN
       IF r # 0
       THEN /\ ctx' = [ctx EXCEPT ![r].aborted = TRUE]
            /\ obs' = [obs EXCEPT ![r].abortedInAttempt =
                         @ \/ (loc[r].pc = "racing" /\ ~race[r].resolved /\ ~ctx[r].aborted)]
       ELSE UNCHANGED <<ctx, obs>>
  /\ UNCHANGED <<settings, activeContexts, loc, race, outcome, returned, config, plan>>

\* the value abortRetry(id) returns
abortRetryReturns(id) == activeContexts[id] # 0

\* abortRetry(id), called by whoever holds the id of a generation
AbortRetry(id) == abortRetry(id) /\ UNCHANGED probe

\* the body of updateTokenTime(id).  `from` is the run whose current attempt
\* streamed the token, 0 for a token of an abandoned operation and for a call
\* made without a stream; the function does not know it, the history notes it
updateTokenTime(id, from) ==
  /\ LET r == activeContexts[id] IN
       IF r # 0
       THEN /\ ctx' = [ctx EXCEPT ![r].tokenAge = 0, ![r].hasReceivedContent = TRUE]
            /\ obs' = [obs EXCEPT ![r].tokens = TRUE, ![r].quiet = 0,
                                  ![r].ownToken = @ \/ from = r]
       ELSE UNCHANGED <<ctx, obs>>
  /\ UNCHANGED <<settings, activeContexts, loc, race, outcome, returned, config, plan>>

\* the operation run r awaits in its current attempt is pending
OwnStream(r) == race[r].op = "pending" /\ loc[r].pc \in {"racing", "direct", "bypass"}

\* an operation of run r that its race gave up on (streaming timeout) is pending
AbandonedStream(r) ==
  race[r].orphans > 0 \/ (race[r].op = "pending" /\ loc[r].pc \in {"sleeping", "done"})

\* the listener of STREAM_TOKEN_RECEIVED_FULLY: updateTokenTime(id), called for
\* a token of a stream with generation id `id`
UpdateTokenTime(id) ==
  /\ \E r \in Runs :
       /\ config[r].generation_id = id
       /\ config[r].should_stream
       /\ MayStream(r)
       /\ \/ /\ OwnStream(r)
             /\ updateTokenTime(id, r)
          \/ /\ AbandonedStream(r)
             /\ updateTokenTime(id, 0)
  /\ UNCHANGED probe

Next ==
  \/ \E r \in Runs : Start(r)
  \/ \E r \in Runs : OpSettles(r)
  \/ \E r \in Runs : Tick(r)
  \/ \E r \in Runs : OrphanSettles(r)
  \/ \E r \in Runs : SleepDone(r)
  \/ \E id \in Ids : AbortRetry(id)
  \/ \E id \in Ids : UpdateTokenTime(id)

Spec == Init /\ [][Next]_vars

\* The scheduling the termination of a run rests on: a requested generation is
\* started, every invoked operation settles, every setTimeout and setInterval
\* callback that is due runs.  Nothing is assumed of abortRetry and of tokens
Scheduling ==
  \A r \in Runs :
    /\ WF_vars(Start(r))
    /\ WF_vars(OpSettles(r))
    /\ WF_vars(OrphanSettles(r))
    /\ WF_vars(SleepDone(r))
    /\ WF_vars(Tick(r))

\* Two generations requested with distinct ids, the first one streaming: both
\* calls of the wrapper are still to come, and the operations are free.  The
\* settings are one value with the largest budgets, content validation and
\* the cascade switched off.
InitTwo ==
  /\ settings \in { s \in RunSettings :
                      /\ s.enabled /\ ~s.filterEnabled
                      /\ s.maxRetries = MaxAttempts /\ s.rateLimitMaxRetries = MaxAttempts
                      /\ ~s.requiredContentEnabled /\ ~s.fallbackModelsEnabled }
  /\ activeContexts = [id \in Ids |-> 0]
  /\ ctx = [r \in Runs |-> IdleCtx]
  /\ loc = [r \in Runs |-> IF r <= 2 THEN IdleLoc ELSE [IdleLoc EXCEPT !.pc = "absent"]]
  /\ race = [r \in Runs |-> IdleRace]
  /\ outcome = [r \in Runs |-> Undefined]
  /\ returned = [r \in Runs |-> Undefined]
  /\ plan = [r \in Runs |-> [n |-> 0, failure |-> HttpError(500)]]
  /\ config = [r \in Runs |-> IF r = 1 THEN [generation_id |-> "g1", should_stream |-> TRUE]
                                         ELSE [generation_id |-> "g2", should_stream |-> FALSE]]
  /\ obs = [r \in Runs |-> IdleObs]
  /\ probe = NoProbe

SpecTwo == InitTwo /\ [][Next]_vars

\* the two generations under the scheduling above
SpecTwoFair == InitTwo /\ [][Next]_vars /\ Scheduling

\* Two generations requested with the same id g1, the first one streaming, under
\* the settings of InitTwo: both calls of the wrapper are still to come
InitSame ==
  /\ settings \in { s \in RunSettings :
                      /\ s.enabled /\ ~s.filterEnabled
                      /\ s.maxRetries = MaxAttempts /\ s.rateLimitMaxRetries = MaxAttempts
                      /\ ~s.requiredContentEnabled /\ ~s.fallbackModelsEnabled }
  /\ activeContexts = [id \in Ids |-> 0]
  /\ ctx = [r \in Runs |-> IdleCtx]
  /\ loc = [r \in Runs |-> IF r <= 2 THEN IdleLoc ELSE [IdleLoc EXCEPT !.pc = "absent"]]
  /\ race = [r \in Runs |-> IdleRace]
  /\ outcome = [r \in Runs |-> Undefined]
  /\ returned = [r \in Runs |-> Undefined]
  /\ plan = [r \in Runs |-> [n |-> 0, failure |-> HttpError(500)]]
  /\ config = [r \in Runs |-> [generation_id |-> "g1", should_stream |-> r = 1]]
  /\ obs = [r \in Runs |-> IdleObs]
  /\ probe = NoProbe

SpecSame == InitSame /\ [][Next]_vars

\* One streaming generation requested under each choice of the three
\* notification toggles, with the largest budgets, content validation, and the
\* cascade over the full list of usable descriptors: every toastr call of the
\* engine can then be reached.
InitToast ==
  /\ settings \in { s \in SettingsSpace :
                      /\ s.enabled /\ ~s.filterEnabled
                      /\ s.filterMode = "blacklist" /\ s.filterGenerationIds = <<"g1">>
                      /\ s.maxRetries = MaxAttempts /\ s.rateLimitMaxRetries = MaxAttempts
                      /\ s.requiredContentEnabled /\ s.fallbackModelsEnabled
                      /\ s.fallbackModels = [k \in 1..MaxFallbacks |-> Descriptor(k, TRUE)] }
  /\ activeContexts = [id \in Ids |-> 0]
  /\ ctx = [r \in Runs |-> IdleCtx]
  /\ loc = [r \in Runs |-> IF r = 1 THEN IdleLoc ELSE [IdleLoc EXCEPT !.pc = "absent"]]
  /\ race = [r \in Runs |-> IdleRace]
  /\ outcome = [r \in Runs |-> Undefined]
  /\ returned = [r \in Runs |-> Undefined]
  /\ plan = [r \in Runs |-> [n |-> 0, failure |-> HttpError(500)]]
  /\ config = [r \in Runs |-> [generation_id |-> "g1", should_stream |-> TRUE]]
  /\ obs = [r \in Runs |-> IdleObs]
  /\ probe = NoProbe

SpecToast == InitToast /\ [][Next]_vars

\* the listener of tavern_events.GENERATION_STOPPED: its body is a comment.  The
\* history notes which runs were retrying when the event was emitted
GenerationStopped ==
  /\ \E r \in Runs : IsActive(r) /\ ~obs[r].userStopped
  /\ obs' = [r \in Runs |-> [obs[r] EXCEPT !.userStopped = @ \/ IsActive(r)]]
  /\ UNCHANGED <<settings, activeContexts, ctx, loc, race, outcome, returned, config, plan, probe>>

\* the user switches the script off in the settings store: the runs hold the
\* same settings object
DisableScript ==
  /\ settings.enabled
  /\ settings' = [settings EXCEPT !.enabled = FALSE]
  /\ UNCHANGED <<activeContexts, ctx, loc, race, outcome, returned, config, plan, obs, probe>>

\* One generation requested with the script enabled, the largest budgets and
\* the cascade over the full list of usable descriptors; while it runs, the
\* user may stop generation and may switch the script off.
InitLive ==
  /\ settings \in { s \in RunSettings :
                      /\ s.enabled /\ ~s.filterEnabled
                      /\ s.maxRetries = MaxAttempts /\ s.rateLimitMaxRetries = MaxAttempts
                      /\ ~s.requiredContentEnabled /\ s.fallbackModelsEnabled
                      /\ s.fallbackModels = [k \in 1..MaxFallbacks |-> Descriptor(k, TRUE)] }
  /\ activeContexts = [id \in Ids |-> 0]
  /\ ctx = [r \in Runs |-> IdleCtx]
  /\ loc = [r \in Runs |-> IF r = 1 THEN IdleLoc ELSE [IdleLoc EXCEPT !.pc = "absent"]]
  /\ race = [r \in Runs |-> IdleRace]
  /\ outcome = [r \in Runs |-> Undefined]
  /\ returned = [r \in Runs |-> Undefined]
  /\ plan = [r \in Runs |-> [n |-> 0, failure |-> HttpError(500)]]
  /\ \E s \in BOOLEAN :
       config = [r \in Runs |-> [generation_id |-> "g1", should_stream |-> s]]
  /\ obs = [r \in Runs |-> IdleObs]
  /\ probe = NoProbe

NextLive == Next \/ GenerationStopped \/ DisableScript

SpecLive == InitLive /\ [][NextLive]_vars

\* abortRetry(id) called with any id at any moment, its return value recorded
CallAbortRetry(id) ==
  /\ abortRetry(id)
  /\ probe' = [probe EXCEPT !.kind = "abortRetry", !.id = id,
                            !.returned = abortRetryReturns(id), !.seq = 1 - @]

\* updateTokenTime(id) called with any id at any moment; it returns nothing
CallUpdateTokenTime(id) ==
  /\ updateTokenTime(id, 0)
  /\ probe' = [probe EXCEPT !.kind = "updateTokenTime", !.id = id,
                            !.returned = FALSE, !.seq = 1 - @]

\* One streaming generation requested under id g1 with the script enabled, the
\* filter letting g1 through or not, and no cascade; abortRetry and
\* updateTokenTime are called with g1 and with the id g2 nobody uses, before,
\* during and after the run.
InitCalls ==
  /\ settings \in { s \in RunSettings :
                      /\ s.enabled /\ s.filterMode = "blacklist"
                      /\ s.filterGenerationIds = <<"g1">>
                      /\ s.maxRetries = MaxAttempts /\ s.rateLimitMaxRetries = MaxAttempts
                      /\ ~s.requiredContentEnabled /\ ~s.fallbackModelsEnabled }
  /\ activeContexts = [id \in Ids |-> 0]
  /\ ctx = [r \in Runs |-> IdleCtx]
  /\ loc = [r \in Runs |-> IF r = 1 THEN IdleLoc ELSE [IdleLoc EXCEPT !.pc = "absent"]]
  /\ race = [r \in Runs |-> IdleRace]
  /\ outcome = [r \in Runs |-> Undefined]
  /\ returned = [r \in Runs |-> Undefined]
  /\ plan = [r \in Runs |-> [n |-> 0, failure |-> HttpError(500)]]
  /\ config = [r \in Runs |-> [generation_id |-> "g1", should_stream |-> TRUE]]
  /\ obs = [r \in Runs |-> IdleObs]
  /\ probe = NoProbe

NextCalls ==
  \/ \E r \in Runs : Start(r)
  \/ \E r \in Runs : OpSettles(r)
  \/ \E r \in Runs : Tick(r)
  \/ \E r \in Runs : OrphanSettles(r)
  \/ \E r \in Runs : SleepDone(r)
  \/ \E id \in Ids : CallAbortRetry(id)
  \/ \E id \in Ids : CallUpdateTokenTime(id)

SpecCalls == InitCalls /\ [][NextCalls]_vars

\* The pure functions of the engine called on their own: the classifiers on a
\* failure value, handleRetryDelay after attempt k under settings with several
\* delays and multipliers.  No generation is requested.
DelaySettings ==
  { [s EXCEPT !.retryDelayMs = d, !.retryDelayMultiplier = x, !.rateLimitDelayMs = rl] :
      s \in { t \in RunSettings : /\ t.enabled /\ ~t.filterEnabled
                                  /\ t.maxRetries = MaxAttempts
                                  /\ t.rateLimitMaxRetries = MaxAttempts
                                  /\ ~t.requiredContentEnabled /\ ~t.fallbackModelsEnabled },
      d \in {100, 1000}, x \in {1, 2, 5}, rl \in {1000, 30000} }

InitPure ==
  /\ settings \in DelaySettings
  /\ activeContexts = [id \in Ids |-> 0]
  /\ ctx = [r \in Runs |-> IdleCtx]
  /\ loc = [r \in Runs |-> [IdleLoc EXCEPT !.pc = "absent"]]
  /\ race = [r \in Runs |-> IdleRace]
  /\ outcome = [r \in Runs |-> Undefined]
  /\ returned = [r \in Runs |-> Undefined]
  /\ plan = [r \in Runs |-> [n |-> 0, failure |-> HttpError(500)]]
  /\ config = [r \in Runs |-> [generation_id |-> "g1", should_stream |-> FALSE]]
  /\ obs = [r \in Runs |-> IdleObs]
  /\ \/ /\ settings.retryDelayMs = 1000 /\ settings.retryDelayMultiplier = 2
        /\ settings.rateLimitDelayMs = 30000
        /\ \E e \in FailureValues : probe = [NoProbe EXCEPT !.kind = "error", !.error = e]
     \/ \E k \in 1..MaxDelayAttempt, b \in BOOLEAN :
          probe = [NoProbe EXCEPT !.kind = "delay", !.attempt = k, !.isRateLimit = b]

\* isRateLimitError(error) and isRetryableError(error) are called
Classify ==
  /\ probe.kind = "error" /\ probe.stage = "input"
  /\ probe' = [probe EXCEPT !.stage = "returned",
                            !.rate = isRateLimitError(probe.error),
                            !.retry = isRetryableError(probe.error)]
  /\ UNCHANGED <<settings, activeContexts, ctx, loc, race, outcome, returned, config, plan, obs>>

\* handleRetryDelay(attempt, settings, isRateLimit) is called: the time it sleeps
ComputeDelay ==
  /\ probe.kind = "delay" /\ probe.stage = "input"
  /\ LET m == [M(1) EXCEPT !.loc.attempt = probe.attempt] IN
       probe' = [probe EXCEPT !.stage = "returned",
                              !.delay = handleRetryDelay(m, probe.isRateLimit).loc.sleepMs]
  /\ UNCHANGED <<settings, activeContexts, ctx, loc, race, outcome, returned, config, plan, obs>>

NextPure == Classify \/ ComputeDelay

SpecPure == InitPure /\ [][NextPure]_vars

(***************************************************************************)
(* Vocabulary of the properties.  The classes of failures and the usable   *)
(* descriptors are stated here as the specification states them, apart     *)
(* from the operators above that model the code.                           *)
(***************************************************************************)
Out(r) == outcome[r][1]

\* the id of run r is one the filter lets through
PassesFilter(r) ==
  LET listed == \E k \in 1..Len(settings.filterGenerationIds) :
                  settings.filterGenerationIds[k] = config[r].generation_id IN
  \/ ~settings.filterEnabled
  \/ settings.filterMode = "whitelist" /\ listed
  \/ settings.filterMode = "blacklist" /\ ~listed

\* run r is retry-eligible: the script is enabled and the filter lets its id through
RetryEligible(r) == settings.enabled /\ PassesFilter(r)

\* executeWithRetry has returned for the retry-eligible run r
HasReturned(r) == RetryEligible(r) /\ loc[r].pc = "done"
IsRunning(r) == loc[r].pc \in {"racing", "sleeping"}

\* an attempt that ended with a retryable failure that is not a rate limit
OrdinaryRetryable(s) == ~s.ok /\ s.error \in {HttpError(500), StreamingTimeoutError}
\* an attempt that ended with a rate-limited failure
RateLimited(s) == ~s.ok /\ s.error = HttpError(429)
\* an attempt that ended with a failure that is not retryable
NonRetryable(s) == ~s.ok /\ s.error = HttpError(400)
\* a text that meets the content requirement of the settings
ValidText(c) == ~settings.requiredContentEnabled \/ c \in GoodContents

\* the 0-based indices of the descriptors with an endpoint and a model
UsableIndices ==
  { i \in 0..(Len(settings.fallbackModels) - 1) :
      /\ settings.fallbackModels[i + 1].apiurl # ""
      /\ settings.fallbackModels[i + 1].model # "" }
\* the usable descriptors the cascade has still to try after backend b
LaterUsable(b) ==
  IF settings.fallbackModelsEnabled THEN { i \in UsableIndices : i > b } ELSE {}
Least(S) == CHOOSE i \in S : \A j \in S : i <= j

\* what the attempts of run r on its current backend ended with, the one
\* that ends during the step included
AttemptsOn(r) ==
  obs[r].seen \cup { obs'[r].lastSettle[k] : k \in 1..Len(obs'[r].lastSettle) }

\* a step in which the primary loop of a run that is not aborted ends: the run
\* returns or goes on to a fallback descriptor
PrimaryLoopEnds(r) ==
  /\ loc[r].loop = "primary"
  /\ IsRunning(r)
  /\ ~ctx[r].aborted
  /\ loc'[r].pc = "done" \/ loc'[r].loop = "fallback"

\* a step of run r that invokes an operation
Invokes(r) == <<obs'[r].backend, obs'[r].calls>> # <<obs[r].backend, obs[r].calls>>

\* the run returned the failure result that follows the loops (not Aborted)
OverallFailure(r) ==
  HasReturned(r) /\ ~Out(r).success /\ Out(r).error # Some(AbortedError)

C2_Original ==
  \A r \in Runs :
    (HasReturned(r) /\ plan[r].n >= 1 /\ ~ctx[r].aborted)
    => /\ Out(r).success
       /\ Out(r).attempts = plan[r].n
       /\ ~Out(r).usedFallback

\* C2 as amended: the same for a run that is not aborted and whose k failures
\* are not rate-limited, or are rate-limited with k < rateLimitMaxRetries.
C2_SucceedsAfterFailures ==
  \A r \in Runs :
    ( /\ HasReturned(r) /\ plan[r].n >= 1 /\ ~ctx[r].aborted
      /\ plan[r].failure = HttpError(500) \/ plan[r].n <= settings.rateLimitMaxRetries )
    => /\ Out(r).success
       /\ Out(r).result \in { Some(c) : c \in GoodContents }
       /\ Out(r).attempts = plan[r].n
       /\ ~Out(r).usedFallback

C2_Witness ==
  /\ HasReturned(1) /\ plan[1].n = 2 /\ ~ctx[1].aborted
  /\ Out(1).success /\ Out(1).attempts = 2

(***************************************************************************)
(* C3.  A run that abortRetry hits while an attempt is outstanding returns *)
(* the failure 'Aborted by user'.                                          *)
(***************************************************************************)
C3_AbortEndsRunAborted ==
  \A r \in Runs :
    (HasReturned(r) /\ obs[r].abortedInAttempt)
    => ~Out(r).success /\ Out(r).error = Some(AbortedError)

(***************************************************************************)
(* C4.  Once the abort flag of a run is set (abortRetry returned true),    *)
(* no step of the run invokes an operation, on the primary or a fallback.  *)
(***************************************************************************)
C4_NoInvocationAfterAbort ==
  [][\A r \in Runs : ctx[r].aborted => ~Invokes(r)]_vars

C4_Witness ==
  /\ HasReturned(1) /\ ctx[1].aborted
  /\ Out(1).error = Some(AbortedError)
  /\ Out(1).attempts < settings.maxRetries
  /\ LaterUsable(obs[1].backend) # {}

(***************************************************************************)
(* C5.  When executeWithRetry has returned for generation id g the         *)
(* registry holds no entry for g; while the run is under way it holds the  *)
(* run's context.                                                          *)
(***************************************************************************)
C5_RegistryEntry ==
  \A r \in Runs :
    /\ HasReturned(r) => activeContexts[config[r].generation_id] = 0
    /\ IsRunning(r) => activeContexts[config[r].generation_id] = r

C5_Witness ==
  /\ HasReturned(1) /\ Out(1).error = Some(AbortedError)
  /\ activeContexts[config[1].generation_id] = 0

(***************************************************************************)
(* C6.  When the primary loop ended without success, fallback is enabled   *)
(* and the operation against the first usable descriptor settles with      *)
(* valid content, the run returns success with usedFallback = true and     *)
(* fallbackModel equal to that descriptor, the one the operation was       *)
(* invoked with.                                                           *)
(***************************************************************************)
C6_FirstUsableFallbackSucceeds ==
  \A r \in Runs :
    ( /\ HasReturned(r)
      /\ LaterUsable(-1) # {}
      /\ obs[r].backend = Least(LaterUsable(-1))
      /\ obs[r].lastSettle # Undefined
      /\ obs[r].lastSettle[1].ok
      /\ ValidText(obs[r].lastSettle[1].content) )
    => /\ Out(r).success
       /\ Out(r).usedFallback
       /\ Out(r).result = Some(obs[r].lastSettle[1].content)
       /\ Out(r).fallbackModel = Some(settings.fallbackModels[obs[r].backend + 1])
       /\ Out(r).fallbackModel = obs[r].invokedWith

C6_Witness ==
  /\ HasReturned(1) /\ Out(1).success /\ Out(1).usedFallback
  /\ obs[1].backend = Least(UsableIndices)
  /\ obs[1].backend > 0

(***************************************************************************)
(* C7.  Fallback descriptors are tried strictly in list order: a           *)
(* descriptor is invoked only after the loops of the primary and of every  *)
(* earlier usable descriptor ended without success, its first invocation   *)
(* is attempt 1, and nothing is invoked after the run has returned.        *)
(***************************************************************************)
C7_CascadeInListOrder ==
  [][\A r \in Runs :
       Invokes(r) =>
         /\ outcome[r] = Undefined
         /\ obs'[r].tried = {-1} \cup { j \in UsableIndices : j <= obs'[r].backend }
         /\ obs'[r].backend # obs[r].backend =>
              /\ LaterUsable(obs[r].backend) # {}
              /\ obs'[r].backend = Least(LaterUsable(obs[r].backend))
              /\ loc'[r].attempt = 1
              /\ obs'[r].calls = 1
              /\ obs'[r].lastSettle # Undefined
              /\ ~(obs'[r].lastSettle[1].ok /\ ValidText(obs'[r].lastSettle[1].content))]_vars

C7_Witness ==
  /\ IsRunning(1)
  /\ UsableIndices = {0, 1}
  /\ obs[1].backend = 1
  /\ obs[1].tried = {-1, 0, 1}

(***************************************************************************)
(* C8.  A descriptor with an empty endpoint or an empty model is skipped   *)
(* without an invocation and without ending the cascade; when no           *)
(* descriptor is usable the run returns the failure of the primary with    *)
(* usedFallback = false.                                                   *)
(***************************************************************************)
C8_UnusableSkipped ==
  \A r \in Runs :
    /\ obs[r].tried \subseteq ({-1} \cup UsableIndices)
    /\ \A k \in 1..Len(obs[r].invokedWith) :
         obs[r].invokedWith[k].apiurl # "" /\ obs[r].invokedWith[k].model # ""
    /\ (OverallFailure(r) /\ settings.fallbackModelsEnabled)
         => UsableIndices \subseteq obs[r].tried
    /\ (OverallFailure(r) /\ UsableIndices = {})
         => /\ ~Out(r).usedFallback
            /\ Out(r).fallbackModel = Undefined
            /\ obs[r].lastSettle # Undefined
            /\ Out(r).error = Some(IF obs[r].lastSettle[1].ok
                                     THEN ContentValidationError
                                     ELSE obs[r].lastSettle[1].error)

C8_Witness ==
  /\ OverallFailure(1)
  /\ settings.fallbackModelsEnabled
  /\ UsableIndices = {1}
  /\ obs[1].tried = {-1, 1}
  /\ Out(1).usedFallback

(***************************************************************************)
(* C9.  When an attempt of a run that is not aborted fails with an error   *)
(* that is not retryable, the loop of that backend ends at once, without a *)
(* delay: the next usable fallback is invoked, or the run returns overall  *)
(* failure with that error when none remains.                              *)
(***************************************************************************)
C9_NonRetryableEndsLoop ==
  [][\A r \in Runs :
       ( /\ loc[r].pc = "racing"
         /\ ~ctx[r].aborted
         /\ loc'[r] # loc[r]
         /\ obs'[r].lastSettle # Undefined
         /\ NonRetryable(obs'[r].lastSettle[1]) )
       => /\ loc'[r].pc # "sleeping"
          /\ IF LaterUsable(obs[r].backend) # {}
               THEN /\ loc'[r].pc = "racing"
                    /\ obs'[r].backend = Least(LaterUsable(obs[r].backend))
                    /\ obs'[r].calls = 1
               ELSE /\ loc'[r].pc = "done"
                    /\ ~outcome'[r][1].success
                    /\ outcome'[r][1].error = Some(HttpError(400))
                    /\ ~Invokes(r)]_vars

C9_Witness ==
  /\ HasReturned(1) /\ ~ctx[1].aborted
  /\ loc[1].loop = "primary"
  /\ settings.maxRetries = 2
  /\ Out(1).attempts = 1
  /\ Out(1).error = Some(HttpError(400))

(***************************************************************************)
(* C10.  When every attempt against the primary fails with a rate-limited  *)
(* error, the primary is invoked exactly rateLimitMaxRetries times,        *)
(* whatever maxRetries is.                                                 *)
(***************************************************************************)
C10_RateLimitBudget ==
  [][\A r \in Runs :
       (PrimaryLoopEnds(r) /\ \A s \in AttemptsOn(r) : RateLimited(s))
       => obs[r].calls = settings.rateLimitMaxRetries]_vars

(***************************************************************************)
(* C11.  With filtering enabled, a run whose id is in the list under       *)
(* blacklist mode, or not in the list under whitelist mode, invokes the    *)
(* operation exactly once and passes its success or failure through with   *)
(* attempts = 1: it never registers a context, never delays, never uses a  *)
(* fallback.  A run whose id the filter lets through, and every run when   *)
(* filtering is disabled, goes through the retry loop: its context is      *)
(* registered, and failing with server errors alone it makes maxRetries    *)
(* attempts.                                                               *)
(***************************************************************************)
FilteredOut(r) == settings.enabled /\ ~PassesFilter(r)

C11_FilterGate ==
  \A r \in Runs :
    /\ FilteredOut(r) =>
         /\ loc[r].pc \in {"absent", "idle", "bypass", "done"}
         /\ loc[r].sleepMs = 0
         /\ \A id \in Ids : activeContexts[id] # r
         /\ obs[r].calls <= 1 /\ obs[r].tried \subseteq {-1} /\ obs[r].invokedWith = Undefined
         /\ loc[r].pc = "done" =>
              /\ obs[r].calls = 1
              /\ obs[r].lastSettle # Undefined
              /\ LET s == obs[r].lastSettle[1] IN
                 outcome[r] = Some([success |-> s.ok,
                                    result |-> IF s.ok THEN Some(s.content) ELSE Undefined,
                                    error |-> IF s.ok THEN Undefined ELSE Some(s.error),
                                    attempts |-> 1,
                                    usedFallback |-> FALSE,
                                    fallbackModel |-> Undefined])
    /\ RetryEligible(r) =>
         /\ loc[r].pc \in {"absent", "idle", "racing", "sleeping", "done"}
         /\ IsRunning(r) => activeContexts[config[r].generation_id] = r
         /\ ( /\ HasReturned(r) /\ ~ctx[r].aborted /\ ~Out(r).success
              /\ loc[r].loop = "primary"
              /\ obs[r].seen = {Rejected(HttpError(500))} )
            => Out(r).attempts = settings.maxRetries

C11_Witness ==
  /\ FilteredOut(1) /\ loc[1].pc = "done"
  /\ settings.filterMode = "whitelist"
  /\ settings.maxRetries >= 2 /\ settings.fallbackModelsEnabled
  /\ ~outcome[1][1].success
  /\ outcome[1][1].error = Some(HttpError(500))
  /\ outcome[1][1].attempts = 1

(***************************************************************************)
(* C12.  When settings.enabled is false at the call, the wrapper invokes   *)
(* the original function exactly once and its promise settles as that      *)
(* call does: executeWithRetry is not called, so no context is registered  *)
(* and no retry, delay, timeout race or fallback is engaged.               *)
(***************************************************************************)
C12_DisabledPassThrough ==
  \A r \in Runs :
    ~settings.enabled =>
      /\ loc[r].pc \in {"absent", "idle", "direct", "done"}
      /\ outcome[r] = Undefined
      /\ \A id \in Ids : activeContexts[id] # r
      /\ loc[r].sleepMs = 0 /\ loc[r].attempt = 0 /\ ~loc[r].usedFallback
      /\ ~race[r].interval /\ ~race[r].resolved
      /\ obs[r].calls <= 1 /\ obs[r].tried \subseteq {-1} /\ obs[r].invokedWith = Undefined
      /\ loc[r].pc # "done" => returned[r] = Undefined
      /\ loc[r].pc = "done" =>
           /\ obs[r].calls = 1
           /\ obs[r].lastSettle # Undefined
           /\ LET s == obs[r].lastSettle[1] IN
              returned[r] = Some([threw |-> ~s.ok,
                                  value |-> IF s.ok THEN Some(s.content) ELSE Undefined,
                                  error |-> IF s.ok THEN Undefined ELSE Some(s.error)])

C12_Witness ==
  /\ ~settings.enabled /\ loc[1].pc = "done"
  /\ settings.maxRetries >= 2 /\ settings.fallbackModelsEnabled
  /\ returned[1] # Undefined
  /\ returned[1][1].threw
  /\ returned[1][1].error = Some(HttpError(500))

(***************************************************************************)
(* C13.  With content validation enabled and a literal pattern, no success *)
(* outcome of the retry loop carries a text without the pattern: an attempt*)
(* that resolves with such a text counts as failed and, while attempts     *)
(* remain (and the run is not aborted), the operation is invoked again; an *)
(* attempt that resolves with a text holding the pattern ends the run with *)
(* success and that text.                                                  *)
(***************************************************************************)
\* the step in which the race of run r's current attempt settles
\* (a step that invokes the next operation at once starts the count of the
\* new race)
RaceSettles(r) ==
  /\ loc[r].pc = "racing" /\ ~race[r].resolved
  /\ obs'[r].settles = obs[r].settles + 1 \/ Invokes(r)

C13_ContentValidation ==
  [][\A r \in Runs :
       /\ (settings.requiredContentEnabled /\ RetryEligible(r)
           /\ outcome'[r] # Undefined /\ outcome'[r][1].success)
          => outcome'[r][1].result \in { Some(c) : c \in GoodContents }
       /\ (RaceSettles(r) /\ obs'[r].lastSettle[1].ok) =>
            IF ValidText(obs'[r].lastSettle[1].content)
            THEN /\ loc'[r].pc = "done"
                 /\ outcome'[r][1].success
                 /\ outcome'[r][1].result = Some(obs'[r].lastSettle[1].content)
                 /\ outcome'[r][1].attempts = loc[r].attempt
            ELSE /\ outcome'[r] = Undefined
                 /\ loc'[r].lastError = Some(ContentValidationError)
                 /\ ~Invokes(r)
                 /\ loc[r].attempt < settings.maxRetries => loc'[r].pc = "sleeping"
       /\ ( /\ loc[r].pc = "sleeping" /\ loc'[r] # loc[r]
            /\ obs[r].lastSettle[1].ok
            /\ loc[r].attempt < settings.maxRetries /\ ~ctx[r].aborted )
          => /\ Invokes(r)
             /\ obs'[r].backend = obs[r].backend
             /\ loc'[r].attempt = loc[r].attempt + 1]_vars

C13_Witness ==
  /\ HasReturned(1) /\ settings.requiredContentEnabled
  /\ Out(1).success /\ Out(1).attempts = 2 /\ ~Out(1).usedFallback
  /\ Out(1).result = Some("ok!")
  /\ Fulfilled("no") \in obs[1].seen

(***************************************************************************)
(* C14.  A content-validation failure goes through the decision step of an *)
(* ordinary retryable failure: an aborted run ends with the Aborted        *)
(* outcome; with the attempt counter at maxRetries the loop of the backend *)
(* ends without a delay; only otherwise the ordinary delay is awaited.     *)
(***************************************************************************)
C14_ValidationFailureDecision ==
  [][\A r \in Runs :
       ( /\ RaceSettles(r)
         /\ obs'[r].lastSettle[1].ok
         /\ ~ValidText(obs'[r].lastSettle[1].content) )
       => IF ctx[r].aborted
          THEN /\ loc'[r].pc = "done"
               /\ outcome'[r][1].error = Some(AbortedError)
          ELSE IF loc[r].attempt >= settings.maxRetries
          THEN loc'[r].pc # "sleeping"
          ELSE /\ loc'[r].pc = "sleeping"
               /\ loc'[r].sleepMs = calculateDelay(loc[r].attempt, FALSE)]_vars

(***************************************************************************)
(* C15.  The race ends an attempt with 'Streaming timeout' only at a       *)
(* polling tick of a streaming run, in an attempt in which a token was     *)
(* recorded, and when more than streamingTimeoutMs have passed since the   *)
(* last recorded token: never in a run that does not stream, never in an   *)
(* attempt without a recorded token, and every updateTokenTime call starts *)
(* the window anew.                                                        *)
(***************************************************************************)
\* the step in which the race of run r rejects with 'Streaming timeout'
TimeoutFires(r) ==
  RaceSettles(r) /\ obs'[r].lastSettle = Some(Rejected(StreamingTimeoutError))

C15_StallTimeoutOnlyAfterContent ==
  [][\A r \in Runs :
       TimeoutFires(r) =>
         /\ config[r].should_stream
         /\ race[r].interval
         /\ obs[r].tokens
         /\ (obs[r].quiet + 1) * PollIntervalMs > settings.streamingTimeoutMs]_vars

C15_Witness ==
  /\ config[1].should_stream
  /\ loc[1].pc = "sleeping"
  /\ obs[1].lastSettle = Some(Rejected(StreamingTimeoutError))
  /\ obs[1].stopped /\ obs[1].tokens

(***************************************************************************)
(* C16.  In a streaming attempt whose operation is unsettled and for which *)
(* no token was recorded for streamingTimeoutMs, the next polling tick     *)
(* stops the generation (stopGenerationById), ends the attempt with        *)
(* 'Streaming timeout', and starts the ordinary retry delay when attempts  *)
(* remain.  As stated, for every streaming attempt, this fails: an attempt *)
(* without any recorded token, and an aborted run, never time out.  It     *)
(* holds for attempts with a recorded token in runs that are not aborted.  *)
(***************************************************************************)
\* a polling tick of run r's unsettled streaming attempt, at least
\* streamingTimeoutMs after the last recorded token (or the attempt's start)
TickAtStall(r) ==
  /\ RetryEligible(r) /\ loc[r].pc = "racing"
  /\ config[r].should_stream
  /\ race[r].op = "pending" /\ ~race[r].resolved
  /\ obs[r].quiet * PollIntervalMs >= settings.streamingTimeoutMs
  /\ (obs'[r].quiet = obs[r].quiet + 1 \/ TimeoutFires(r))

StallHandled(r) ==
  /\ TimeoutFires(r)
  /\ obs'[r].stopped
  /\ loc[r].attempt < settings.maxRetries
       => /\ loc'[r].pc = "sleeping"
          /\ loc'[r].sleepMs = calculateDelay(loc[r].attempt, FALSE)

C16_Original ==
  [][\A r \in Runs : TickAtStall(r) => StallHandled(r)]_vars

C16_StallStopsAndRetries ==
  [][\A r \in Runs :
       (TickAtStall(r) /\ obs[r].tokens /\ ~ctx[r].aborted) => StallHandled(r)]_vars

C16_Witness ==
  /\ config[1].should_stream
  /\ loc[1].pc = "sleeping" /\ loc[1].attempt < settings.maxRetries
  /\ loc[1].sleepMs = calculateDelay(loc[1].attempt, FALSE)
  /\ obs[1].lastSettle = Some(Rejected(StreamingTimeoutError))
  /\ obs[1].stopped /\ obs[1].tokens /\ ~ctx[1].aborted
  /\ obs[1].quiet * PollIntervalMs > settings.streamingTimeoutMs

(***************************************************************************)
(* C17.  An attempt that has recorded no token and whose operation has not *)
(* settled is ended as a timeout once thinkingTimeLimitMs have passed      *)
(* since it started: no unsettled token-less attempt is older than the     *)
(* limit.  The race has no such trigger, so this is violated.              *)
(***************************************************************************)
C17_ThinkingTimeLimit ==
  \A r \in Runs :
    ( /\ RetryEligible(r) /\ loc[r].pc = "racing"
      /\ race[r].op = "pending" /\ ~race[r].resolved
      /\ ~obs[r].tokens /\ ~ctx[r].hasReceivedContent
      /\ ~ctx[r].aborted )
      => obs[r].quiet * PollIntervalMs <= thinkingTimeLimitMs

(***************************************************************************)
(* C18.  A race settles at most once: after it has settled (operation      *)
(* success, operation failure or streaming timeout) a later settlement of  *)
(* the operation, or of an operation of an earlier attempt, changes        *)
(* nothing of the run but the operation's own state, and the polling timer *)
(* is cleared and does not tick again.                                     *)
(***************************************************************************)
\* the operation given to an already settled race, or an operation of an
\* earlier attempt, settles
LateSettlement(r) ==
  \/ race[r].resolved /\ race[r].op = "pending" /\ race'[r].op = "none"
  \/ race'[r].orphans < race[r].orphans

C18_FirstSettleWins ==
  [][\A r \in Runs :
       /\ obs'[r].settles <= 1
       /\ race'[r].resolved => ~race'[r].interval
       /\ race[r].resolved => obs'[r].quiet <= obs[r].quiet
       /\ LateSettlement(r) =>
            /\ loc'[r] = loc[r] /\ ctx'[r] = ctx[r] /\ obs'[r] = obs[r]
            /\ outcome'[r] = outcome[r] /\ returned'[r] = returned[r]
            /\ race'[r].resolved = race[r].resolved
            /\ activeContexts' = activeContexts]_vars

C18_Witness ==
  /\ loc[1].pc = "sleeping"
  /\ race[1].resolved /\ race[1].op = "none" /\ ~race[1].interval
  /\ obs[1].lastSettle = Some(Rejected(StreamingTimeoutError))
  /\ obs[1].settles = 1

(***************************************************************************)
(* C19.  The attempts of a run are strictly ordered.  The first operation  *)
(* of the run is invoked with no delay before it; attempt N+1 on a backend *)
(* is invoked only after the race of attempt N has settled with a failure  *)
(* and the delay computed for that failure has elapsed; the first attempt  *)
(* on the next backend is invoked once the last race on the previous       *)
(* backend has settled.                                                    *)
(***************************************************************************)
\* the latest race of run r settled with a failure (a rejection or a text that
\* fails validation)
LastAttemptFailed(r) ==
  /\ obs[r].lastSettle # Undefined
  /\ obs[r].lastSettle[1].ok => ~ValidText(obs[r].lastSettle[1].content)

C19_AttemptsStrictlyOrdered ==
  [][\A r \in Runs :
       RetryEligible(r) =>
         /\ Invokes(r) =>
              \/ /\ loc[r].pc = "idle"
                 /\ obs[r].tried = {} /\ loc'[r].attempt = 1
              \/ /\ loc[r].pc = "sleeping"
                 /\ race[r].resolved /\ obs[r].settles = 1
                 /\ LastAttemptFailed(r)
                 /\ loc[r].sleepMs > 0
                 /\ IF obs'[r].backend = obs[r].backend
                    THEN loc'[r].attempt = loc[r].attempt + 1
                    ELSE loc'[r].attempt = 1
              \/ /\ RaceSettles(r)
                 /\ obs'[r].backend # obs[r].backend
                 /\ loc'[r].attempt = 1
         /\ loc'[r].pc = "sleeping" =>
              /\ obs'[r].tried # {}
              /\ race'[r].resolved
              /\ loc'[r].sleepMs > 0]_vars

C19_Witness ==
  /\ RetryEligible(1)
  /\ loc[1].pc = "racing" /\ loc[1].attempt = 2
  /\ obs[1].calls = 2 /\ obs[1].backend = -1
  /\ LastAttemptFailed(1)
  /\ ~race[1].resolved /\ obs[1].settles = 0

(***************************************************************************)
(* C20.  Within one run at most one operation is in flight (invoked and    *)
(* not yet settled) at any time, also after an attempt was ended by a      *)
(* streaming timeout.  The timeout rejects the race without waiting for    *)
(* the stopped operation to settle, so the next attempt is invoked while   *)
(* the previous operation may still be in flight: this is violated.        *)
(***************************************************************************)
\* the operations of run r that were invoked and have not settled
InFlight(r) == (IF race[r].op = "pending" THEN 1 ELSE 0) + race[r].orphans

C20_OneOperationInFlight == \A r \in Runs : InFlight(r) <= 1

(***************************************************************************)
(* C21.  Two runs with distinct generation ids are independent under every *)
(* interleaving.  A step changes the state of at most one of them and      *)
(* leaves the registry entry of the other's id alone; abortRetry and       *)
(* updateTokenTime reach only the context registered under their id; and   *)
(* each run's attempt count and outcome are those of its own operations:   *)
(* the counter equals the invocations of its own backend, and a result or  *)
(* failure it returns is the one its own last attempt ended with.          *)
(***************************************************************************)
\* all there is of run r
RunState(r) == <<ctx[r], loc[r], race[r], outcome[r], returned[r], obs[r]>>

\* the attempt count and the outcome of run r are those of its own operations
OwnResults(r) ==
  /\ loc[r].pc \in {"racing", "sleeping", "done"} => loc[r].attempt = obs[r].calls
  /\ loc[r].pc = "done" =>
       /\ Out(r).attempts = obs[r].calls
       /\ Out(r).success =>
            /\ obs[r].lastSettle # Undefined /\ obs[r].lastSettle[1].ok
            /\ Out(r).result = Some(obs[r].lastSettle[1].content)
       /\ (~Out(r).success /\ Out(r).error # Some(AbortedError)) =>
            /\ obs[r].lastSettle # Undefined /\ ~obs[r].lastSettle[1].ok
            /\ Out(r).error = Some(obs[r].lastSettle[1].error)

C21_DistinctIdsIndependent ==
  [][\A a \in Runs : \A b \in Runs \ {a} :
       config[a].generation_id # config[b].generation_id =>
         /\ RunState(a)' # RunState(a) =>
              /\ RunState(b)' = RunState(b)
              /\ activeContexts'[config[b].generation_id]
                   = activeContexts[config[b].generation_id]
         /\ activeContexts'[config[a].generation_id] # b
         /\ OwnResults(a)']_vars

C21_Witness ==
  /\ loc[1].pc = "done" /\ loc[2].pc = "done"
  /\ ctx[1].aborted /\ Out(1).error = Some(AbortedError)
  /\ ~ctx[2].aborted /\ Out(2).success /\ Out(2).attempts = 2
  /\ obs[1].tokens

(***************************************************************************)
(* C22.  The notification toggles do not influence control flow.  From     *)
(* every reachable state and for every event (the call, a settlement of    *)
(* the operation, a polling tick, the end of a delay), the handler run     *)
(* under any other choice of showRetryToast / showSuccessToast /           *)
(* showFailureToast leaves the run in the same state but for the toasts    *)
(* shown: the same invocations, cancellations, delays and outcome.  Runs   *)
(* that differ in the toggles alone therefore stay in step.                *)
(***************************************************************************)
ToggleChoices ==
  [showRetryToast : BOOLEAN, showSuccessToast : BOOLEAN, showFailureToast : BOOLEAN]

\* a run but for the toggles it was given and the toasts it showed
Control(m) == [m EXCEPT !.tg = {}, !.obs.toasts = {}]

C22_TogglesDoNotSteer ==
  \A r \in Runs : \A t \in ToggleChoices :
    LET m == M(r)
        n == [m EXCEPT !.tg = t] IN
    /\ loc[r].pc = "idle" =>
         Control(WhileTop([m EXCEPT !.ctx = NewContext(r)]))
           = Control(WhileTop([n EXCEPT !.ctx = NewContext(r)]))
    /\ (loc[r].pc \in {"racing", "sleeping"} /\ race[r].op = "pending") =>
         \A settled \in MaySettle(r) :
           Control(OnSettled(m, settled)) = Control(OnSettled(n, settled))
    /\ race[r].interval => Control(OnInterval(m)) = Control(OnInterval(n))
    /\ loc[r].pc = "sleeping" =>
         Control(WhileTop([m EXCEPT !.loc.sleepMs = 0]))
           = Control(WhileTop([n EXCEPT !.loc.sleepMs = 0]))

C22_Witness ==
  /\ settings.showRetryToast /\ ~settings.showSuccessToast /\ ~settings.showFailureToast
  /\ loc[1].pc = "sleeping"
  /\ "validation" \in obs[1].toasts

(***************************************************************************)
(* C23.  The classifiers match the reference rule for every failure value: *)
(* rate limited iff the status (or, without one, the statusCode) is 429 or *)
(* the message holds 'rate limit', 'too many requests' or 'quota exceeded' *)
(* in any case of letters; retryable iff rate limited, or the message      *)
(* holds a network/timeout keyword, or the status is in 500..599.  The     *)
(* code reads the message of Error instances only, so this is violated by  *)
(* a failure value that is another object with such a message.             *)
(***************************************************************************)
RateLimitKeywords == { "rate limit", "too many requests", "quota exceeded" }
NetworkKeywords ==
  { "network", "fetch", "timeout", "connection refused", "connection reset",
    "econnrefused", "econnreset" }
HasKeyword(e, keywords) == \E k \in keywords : msgIncludes(e.message, k)

RuleRateLimited(e) == StatusOf(e) = 429 \/ HasKeyword(e, RateLimitKeywords)
RuleRetryable(e) ==
  \/ RuleRateLimited(e)
  \/ HasKeyword(e, NetworkKeywords)
  \/ StatusOf(e) \in 500..599

Classified == probe.kind = "error" /\ probe.stage = "returned"

C23_ClassificationMatchesRule ==
  Classified =>
    /\ probe.rate = RuleRateLimited(probe.error)
    /\ probe.retry = RuleRetryable(probe.error)

(***************************************************************************)
(* C24.  A failure whose status is 400, 401, 403 or 404 is not retryable.  *)
(* The code looks at the message before the status, so an Error with such  *)
(* a status and a message holding a keyword is retryable: violated.        *)
(***************************************************************************)
C24_ClientErrorsNotRetryable ==
  (Classified /\ probe.error.status \in {400, 401, 403, 404}) => ~probe.retry

(***************************************************************************)
(* C25.  The time slept after failed attempt k is retryDelayMs times the   *)
(* multiplier to the power k - 1 for an ordinary failure (retryDelayMs for *)
(* k = 1, retryDelayMs * multiplier for k = 2), and rateLimitDelayMs for a *)
(* rate-limited one, whatever k; the ordinary delay of attempt k is not    *)
(* below that of attempt k - 1.                                            *)
(***************************************************************************)
RECURSIVE Geometric(_, _, _)
\* base, base * ratio, base * ratio * ratio, ... : the k-th term
Geometric(base, ratio, k) == IF k <= 1 THEN base ELSE ratio * Geometric(base, ratio, k - 1)

C25_DelayFormula ==
  (probe.kind = "delay" /\ probe.stage = "returned") =>
    IF probe.isRateLimit
    THEN probe.delay = settings.rateLimitDelayMs
    ELSE /\ probe.delay =
              Geometric(settings.retryDelayMs, settings.retryDelayMultiplier, probe.attempt)
         /\ probe.attempt = 1 => probe.delay = settings.retryDelayMs
         /\ probe.attempt = 2 =>
              probe.delay = settings.retryDelayMs * settings.retryDelayMultiplier
         /\ probe.attempt > 1 =>
              probe.delay >= Geometric(settings.retryDelayMs, settings.retryDelayMultiplier,
                                       probe.attempt - 1)

C25_Witness ==
  /\ probe.kind = "delay" /\ probe.stage = "returned"
  /\ ~probe.isRateLimit /\ probe.attempt = 3
  /\ settings.retryDelayMs = 100 /\ settings.retryDelayMultiplier = 5
  /\ probe.delay = 2500

(***************************************************************************)
(* C26.  The attempts field of an overall failure is the number of         *)
(* attempts made in the run on the primary and on all fallback backends.   *)
(* Every backend the run tried was invoked at least once, so the field is  *)
(* at least the invocations of the last backend plus one for every backend *)
(* tried before it.  The counter is set to 0 for every fallback and the    *)
(* field is the counter: violated as soon as a fallback was tried.         *)
(***************************************************************************)
C26_AttemptsIsRunTotal ==
  \A r \in Runs :
    OverallFailure(r) =>
      Out(r).attempts >= obs[r].calls + Cardinality(obs[r].tried) - 1

(***************************************************************************)
(* C27.  When GENERATION_STOPPED is emitted while a run is retrying, the   *)
(* run starts no further attempt.  The listener does nothing, so the run   *)
(* goes on: violated.                                                      *)
(***************************************************************************)
C27_StopEventEndsRetries ==
  [][\A r \in Runs : obs[r].userStopped => ~Invokes(r)]_vars

(***************************************************************************)
(* C28.  When the script is switched off while a run is retrying, the run  *)
(* completes the attempt in flight and starts no further one, on the       *)
(* primary or on a fallback.  The loops never read settings.enabled, so    *)
(* the run goes on: violated.                                              *)
(***************************************************************************)
C28_DisableEndsRetries ==
  [][\A r \in Runs : (IsActive(r) /\ ~settings.enabled) => ~Invokes(r)]_vars

(***************************************************************************)
(* C29.  A request that keeps failing with a network/API error is retried  *)
(* maxRetries times after the initial failure (with maxRetries = 3: three  *)
(* retries, four invocations) before failure is reported.  The loop counts *)
(* the first invocation as an attempt and ends at maxRetries invocations:  *)
(* violated.                                                               *)
(***************************************************************************)
C29_RetriesAfterInitialFailure ==
  [][\A r \in Runs :
       ( /\ RetryEligible(r) /\ PrimaryLoopEnds(r)
         /\ \A s \in AttemptsOn(r) : OrdinaryRetryable(s) )
       => obs[r].calls = 1 + settings.maxRetries]_vars

(***************************************************************************)
(* C30.  A fallback's loop handles a rate-limited failure as the primary's *)
(* does: it ends as exhausted once the attempt counter has reached         *)
(* rateLimitMaxRetries, and otherwise waits rateLimitDelayMs.  The         *)
(* fallback's catch block compares with maxRetries alone: violated when    *)
(* the two budgets differ.                                                 *)
(***************************************************************************)
C30_FallbackRateLimitBudget ==
  [][\A r \in Runs :
       ( /\ RetryEligible(r) /\ loc[r].loop = "fallback"
         /\ RaceSettles(r) /\ ~ctx[r].aborted
         /\ RateLimited(obs'[r].lastSettle[1]) )
       => IF loc[r].attempt >= settings.rateLimitMaxRetries
          THEN loc'[r].pc # "sleeping"
          ELSE /\ loc'[r].pc = "sleeping"
               /\ loc'[r].sleepMs = settings.rateLimitDelayMs]_vars

\* the state of the program, without the inputs and the history
ProgramState == <<settings, activeContexts, ctx, loc, race, outcome, returned>>
\* the step is a recorded call of abortRetry or updateTokenTime
IsCall == probe'.seq # probe.seq

\* C31: abortRetry and updateTokenTime called with an id that has no registry
\* entry (never used, filtered out, or of a finished run) change nothing of the
\* program's state and abortRetry returns false; called with a registered id
\* they touch that id's context alone and abortRetry returns true; neither
\* ever changes the registry.
C31_UnknownIdNoOp ==
  [][IsCall =>
       LET id == probe'.id IN
       /\ activeContexts' = activeContexts
       /\ probe'.kind = "abortRetry" => (probe'.returned <=> activeContexts[id] # 0)
       /\ activeContexts[id] = 0 => ProgramState' = ProgramState
       /\ \A r \in Runs \ {activeContexts[id]} : ctx'[r] = ctx[r]
       /\ <<settings, loc, race, outcome, returned>>' = <<settings, loc, race, outcome, returned>>]_vars

\* abortRetry was called with the id of a run that went through the retry loop
\* and has returned: it reported false and the finished run's context is unmarked
C31_Witness ==
  /\ probe.kind = "abortRetry" /\ probe.id = "g1" /\ ~probe.returned
  /\ loc[1].pc = "done" /\ ~settings.filterEnabled /\ Out(1).attempts = MaxAttempts
  /\ ~ctx[1].aborted

\* C32: every invocation of an operation, on the primary and on each fallback,
\* starts with the per-attempt fields of the context reset: hasReceivedContent
\* is false and lastTokenTime and startTime are the time of the invocation (both
\* ages 0), so that a stall timeout never fires in an attempt on the strength
\* of content that arrived before that attempt began.
C32_AttemptFieldsReset ==
  [][\A r \in Runs :
       /\ (Invokes(r) /\ loc'[r].pc = "racing") =>
            /\ ~ctx'[r].hasReceivedContent
            /\ ctx'[r].tokenAge = 0
            /\ ctx'[r].startAge = 0
       /\ (TimeoutFires(r) /\ loc[r].pc = "racing") => obs[r].tokens]_vars

\* the second attempt on a fallback has just been invoked after the first one
\* received content and then stalled: the fields are those of a fresh attempt
C32_Witness ==
  /\ loc[1].pc = "racing" /\ loc[1].loop = "fallback" /\ loc[1].attempt = 2
  /\ loc[1].lastError = Some(StreamingTimeoutError)
  /\ ~ctx[1].hasReceivedContent /\ ctx[1].tokenAge = 0 /\ ctx[1].startAge = 0
  /\ ~obs[1].tokens

\* C33: under the scheduling assumptions (operations settle, delays elapse,
\* polling callbacks run), every run that has invoked an operation eventually
\* returns an outcome and its registry entry is removed, whatever abortRetry
\* and updateTokenTime calls are interleaved.
C33_Termination ==
  \A r \in Runs :
    (loc[r].pc = "racing") ~>
      (HasReturned(r) /\ activeContexts[config[r].generation_id] # r)

\* C34: while a retry-eligible run is inside its retry loop, the registry entry
\* of its generation id is its own context, also when another run with the same
\* id starts or ends meanwhile: no step takes the entry from a run that goes on.
C34_SameIdKeepsOwnEntry ==
  [][\A r \in Runs :
       (IsRunning(r) /\ IsRunning(r)' /\ activeContexts[ctx[r].generationId] = r)
         => activeContexts'[ctx[r].generationId] = r]_vars

C36_AttemptsInRange ==
  \A r \in Runs :
    outcome[r] # Undefined =>
      /\ 1 <= Out(r).attempts
      /\ Out(r).attempts <= settings.maxRetries

\* C37: in every outcome usedFallback is true exactly when some invocation was
\* made against a fallback descriptor, fallbackModel is present exactly when
\* usedFallback is true, and it is then the descriptor invoked last.
C37_FallbackReported ==
  \A r \in Runs :
    outcome[r] # Undefined =>
      /\ Out(r).usedFallback <=> (\E i \in obs[r].tried : i >= 0)
      /\ Out(r).fallbackModel # Undefined <=> Out(r).usedFallback
      /\ Out(r).usedFallback =>
           /\ obs[r].backend >= 0
           /\ Out(r).fallbackModel = Some(settings.fallbackModels[obs[r].backend + 1])

\* C38: in every attempt, hasReceivedContent is true only if a token of that
\* attempt's own operation arrived: a token of an operation that an earlier
\* attempt abandoned at its streaming timeout leaves the context of the later
\* attempt alone.
C38_OnlyOwnTokensCount ==
  \A r \in Runs :
    (loc[r].pc = "racing" /\ ctx[r].hasReceivedContent) => obs[r].ownToken

====
